---- MODULE Spec2Model ----
(***************************************************************************)
(* Model of src/app.py: the property lookup (find_prop_any_group), the tag *)
(* index builder (build_tag_index), the class-name aggregator              *)
(* (build_class_name_counts) and the highlight scan of                     *)
(* Controller.qaqc_view.                                                   *)
(*                                                                         *)
(* Python values are tagged records.  A Python str is a sequence of        *)
(* one-character strings, so that strip(), lower() and str() are computed  *)
(* and not assumed.  A JSON object is a record with t = "dict"; a key      *)
(* that the object does not hold is the value Absent where the code tells  *)
(* an absent key from a null (dict.get with a default), and PyNone where   *)
(* it does not (dict.get without one).                                     *)
(***************************************************************************)
EXTENDS Integers, Sequences, FiniteSets, TLC

VARIABLES
    properties_payload, \* the payload handed to the builders / the scan
    qc_filters,         \* params.qc_filters of qaqc_view
    obj_props,          \* the properties argument of find_prop_any_group
    key,                \* the key argument of find_prop_any_group
    pc,                 \* "idle", or the name of the operation that has run
    raised,             \* "none", or the exception the operation raised
    found,              \* return value of find_prop_any_group
    tag_index,          \* return value of build_tag_index
    counts,             \* return value of build_class_name_counts
    highlight_elements, \* the list qaqc_view hands to the viewer
    memo,               \* the stored results of the vkt.memoize'd functions
    fetches,            \* how often the upstream fetches have been invoked
    request             \* the last UI request: handler, selection, outcome

vars == <<properties_payload, qc_filters, obj_props, key, pc, raised, found,
          tag_index, counts, highlight_elements, memo, fetches, request>>

-----------------------------------------------------------------------------
(* Bounds of the model *)

\* longest element collection of a payload
MaxElems == 3
\* longest element collection scanned by qaqc_view
MaxObjs == 2
\* longest list of QA/QC filter rows
MaxRules == 3
\* longest list of QA/QC filter rows with a property
MaxMatchRules == 2
\* most property groups of the argument of find_prop_any_group
MaxGroups == 2

-----------------------------------------------------------------------------
(* Python values *)

PyNone == [t |-> "None"]
Absent == [t |-> "absent"]
PyStr(s) == [t |-> "str", s |-> s]
PyInt(n) == [t |-> "int", n |-> n]
PyList(xs) == [t |-> "list", xs |-> xs]

IsDict(v) == v.t = "dict"
IsList(v) == v.t = "list"
IsStr(v) == v.t = "str"

\* the whitespace characters of the model's alphabet
IsSpace(c) == c = " "

RECURSIVE lstrip(_)
lstrip(s) == IF s # <<>> /\ IsSpace(Head(s)) THEN lstrip(Tail(s)) ELSE s

RECURSIVE rstrip(_)
rstrip(s) ==
    IF s # <<>> /\ IsSpace(s[Len(s)]) THEN rstrip(SubSeq(s, 1, Len(s) - 1)) ELSE s

\* str.strip()
strip(s) == rstrip(lstrip(s))

\* str.lower() on one character of the model's alphabet
LowerChar(c) ==
    CASE c = "A" -> "a"
      [] c = "O" -> "o"
      [] c = "N" -> "n"
      [] c = "V" -> "v"
      [] OTHER -> c

\* str.lower()
lower(s) == [i \in 1..Len(s) |-> LowerChar(s[i])]

Digit(d) ==
    CASE d = 0 -> "0" [] d = 1 -> "1" [] d = 2 -> "2" [] d = 3 -> "3"
      [] d = 4 -> "4" [] d = 5 -> "5" [] d = 6 -> "6" [] d = 7 -> "7"
      [] d = 8 -> "8" [] d = 9 -> "9"

RECURSIVE Decimal(_)
Decimal(n) == IF n < 10 THEN <<Digit(n)>> ELSE Decimal(n \div 10) \o <<Digit(n % 10)>>

\* str(v), also the formatting of v in an f-string
str(v) ==
    CASE v.t = "str" -> v.s
      [] v.t = "int" -> IF v.n < 0 THEN <<"-">> \o Decimal(-v.n) ELSE Decimal(v.n)
      [] v.t = "None" -> <<"N", "o", "n", "e">>
      [] OTHER -> <<"<", v.t, ">">>   \* the repr of a container: never blank

\* bool(v): what `if v` / `not v` test
truthy(v) ==
    CASE v.t = "None" -> FALSE
      [] v.t = "absent" -> FALSE
      [] v.t = "str" -> v.s # <<>>
      [] v.t = "int" -> v.n # 0
      [] v.t = "list" -> v.xs # <<>>
      [] OTHER -> TRUE

-----------------------------------------------------------------------------
(* JSON objects of the payload *)

\* one property group: a mapping from property key to value
Group(kv) == [t |-> "dict", kv |-> kv]
\* obj["properties"]: the groups in the mapping's iteration order (the code
\* reads only .values(), so the group names are not kept)
Props(groups) == [t |-> "dict", groups |-> groups]
\* one element record; a field holds PyNone when the key is missing or null
\* (the code reads the fields with dict.get and no default)
Obj(objectid, name, externalId, properties) ==
    [t |-> "dict", objectid |-> objectid, name |-> name,
     externalId |-> externalId, properties |-> properties]
\* payload["data"]; collection is Absent when the key is missing
Data(collection) == [t |-> "dict", collection |-> collection]
\* the payload; data is Absent when the key is missing
Payload(data) == [t |-> "dict", data |-> data]

\* dict.get(k, default) of a modelled field
GetOr(v, default) == IF v = Absent THEN default ELSE v

-----------------------------------------------------------------------------
(* find_prop_any_group *)

RECURSIVE find_in_groups(_, _)
find_in_groups(groups, k) ==
    IF groups = <<>> THEN PyNone
    ELSE IF IsDict(Head(groups)) /\ k \in DOMAIN Head(groups).kv
         THEN Head(groups).kv[k]
         ELSE find_in_groups(Tail(groups), k)

find_prop_any_group(props, k) ==
    IF ~IsDict(props) THEN PyNone ELSE find_in_groups(props.groups, k)

-----------------------------------------------------------------------------
(* build_tag_index *)

\* what an operation hands back: the exception it raised ("none" when it
\* returned) and the value it returned
Returned(v) == [raised |-> "none", value |-> v]
Raised(exc) == [raised |-> exc, value |-> <<>>]

\* out[k] = v of a Python dict, modelled as a function
Put(out, k, v) == [x \in DOMAIN out \cup {k} |-> IF x = k THEN v ELSE out[x]]

tag_key == "Tag"

\* pid_keys with the aliases probed in the opposite order
BadPidKeys == <<"P&ID", "PID", "PId", "PnPID">>

\* the default of the pid_keys parameter
pid_keys == <<"PnPID", "PId", "PID", "P&ID">>

\* the loop `for k in pid_keys: pid = find_prop_any_group(...); break if found`
RECURSIVE first_pid(_, _)
first_pid(props, ks) ==
    IF ks = <<>> THEN PyNone
    ELSE LET pid == find_prop_any_group(props, Head(ks))
         IN IF pid # PyNone THEN pid ELSE first_pid(props, Tail(ks))

\* the suffix of a repeated tag
dup_suffix(objectid) ==
    IF objectid # PyNone THEN <<"#">> \o str(objectid) ELSE <<"#", "d", "u", "p">>

\* one iteration of the loop over the collection
tag_index_step(out, obj) ==
    IF ~IsDict(obj) THEN out
    ELSE IF ~IsDict(obj.properties) THEN out
    ELSE LET tag_val == find_prop_any_group(obj.properties, tag_key) IN
         IF tag_val = PyNone THEN out
         ELSE LET tag == strip(str(tag_val)) IN
              IF tag = <<>> THEN out
              ELSE LET pid == first_pid(obj.properties, pid_keys) IN
                   IF pid = PyNone THEN out
                   ELSE LET record == [objectid |-> obj.objectid, name |-> obj.name,
                                       pid |-> pid, properties |-> obj.properties]
                        IN IF tag \notin DOMAIN out
                           THEN Put(out, tag, record)
                           ELSE Put(out, tag \o dup_suffix(obj.objectid), record)

RECURSIVE tag_index_loop(_, _)
tag_index_loop(out, collection) ==
    IF collection = <<>> THEN out
    ELSE tag_index_loop(tag_index_step(out, Head(collection)), Tail(collection))

build_tag_index(payload) ==
    LET data == GetOr(payload.data, Data(Absent)) IN
    IF ~IsDict(data) THEN Raised("AttributeError")
    ELSE LET collection == GetOr(data.collection, PyList(<<>>)) IN
         IF ~IsList(collection) THEN Returned(<<>>)
         ELSE Returned(tag_index_loop(<<>>, collection.xs))

-----------------------------------------------------------------------------
(* build_class_name_counts *)

Unknown == <<"U", "n", "k", "n", "o", "w", "n">>

\* class_bucket without the fallback for a blank Class Name
BadClassBucket(props) ==
    LET class_name == find_prop_any_group(props, "Class Name") IN
    IF class_name = PyNone THEN Unknown ELSE strip(str(class_name))

\* the bucket an element is counted under
class_bucket(props) ==
    LET class_name == find_prop_any_group(props, "Class Name") IN
    IF class_name = PyNone THEN Unknown
    ELSE IF strip(str(class_name)) = <<>> THEN Unknown ELSE strip(str(class_name))

\* one iteration of the loop over the collection
class_counts_step(cnt, obj) ==
    IF ~IsDict(obj) THEN cnt
    ELSE IF ~IsDict(obj.properties) THEN cnt
    ELSE IF first_pid(obj.properties, <<"PnPID", "PId", "PID", "P&ID">>) = PyNone THEN cnt
    ELSE LET class_name == class_bucket(obj.properties)
         IN Put(cnt, class_name,
                (IF class_name \in DOMAIN cnt THEN cnt[class_name] ELSE 0) + 1)

RECURSIVE class_counts_loop(_, _)
class_counts_loop(cnt, collection) ==
    IF collection = <<>> THEN cnt
    ELSE class_counts_loop(class_counts_step(cnt, Head(collection)), Tail(collection))

build_class_name_counts(payload) ==
    LET data == GetOr(payload.data, Data(Absent)) IN
    IF ~IsDict(data) THEN Raised("AttributeError")
    ELSE LET collection == GetOr(data.collection, PyList(<<>>)) IN
         IF ~IsList(collection) THEN Returned(<<>>)
         ELSE Returned(class_counts_loop(<<>>, collection.xs))

-----------------------------------------------------------------------------
(* Controller.qaqc_view: the filter criteria and the highlight scan *)

\* a vkt.Color picked by the user
Color(hex) == [t |-> "Color", hex |-> hex]
\* a value of the OptionField "Property": one of PROPERTY_OPTIONS
Option(k) == [t |-> "option", k |-> k]
\* one row of params.qc_filters; a field holds PyNone when it is not set
Filter(class_names, property_name, expected_value, highlight_color) ==
    [class_names |-> class_names, property_name |-> property_name,
     expected_value |-> expected_value, highlight_color |-> highlight_color]

default_color == "#FF0000"

\* x in xs, for a Python list xs
In(x, xs) == \E i \in 1..Len(xs) : xs[i] = x

\* the dict appended to filter_criteria for a row with class names
criteria_of(f) ==
    [class_names |-> f.class_names.xs,
     property_name |-> f.property_name,
     expected_value |->
        strip(IF truthy(f.expected_value) THEN f.expected_value.s ELSE <<>>),
     color |-> IF truthy(f.highlight_color) THEN f.highlight_color.hex
               ELSE default_color]

\* build_filter_criteria that collects the rows in the opposite order
RECURSIVE BadFilterCriteria(_)
BadFilterCriteria(fs) ==
    IF fs = <<>> THEN <<>>
    ELSE IF ~truthy(Head(fs).class_names) THEN BadFilterCriteria(Tail(fs))
    ELSE BadFilterCriteria(Tail(fs)) \o <<criteria_of(Head(fs))>>

\* the loop that builds filter_criteria
RECURSIVE build_filter_criteria(_)
build_filter_criteria(fs) ==
    IF fs = <<>> THEN <<>>
    ELSE IF ~truthy(Head(fs).class_names) THEN build_filter_criteria(Tail(fs))
    ELSE <<criteria_of(Head(fs))>> \o build_filter_criteria(Tail(fs))

\* criteria_matches that compares the value as stored, untrimmed and in its case
BadCriteriaMatches(criteria, props, obj_class_name) ==
    IF ~In(obj_class_name, criteria.class_names) THEN FALSE
    ELSE LET prop_name == criteria.property_name
             expected_val == criteria.expected_value
         IN IF truthy(prop_name) /\ expected_val # <<>>
            THEN LET actual_val == find_prop_any_group(props, prop_name.k)
                 IN IF actual_val = PyNone THEN FALSE
                    ELSE str(actual_val) = expected_val
            ELSE IF truthy(prop_name)
            THEN find_prop_any_group(props, prop_name.k) # PyNone
            ELSE TRUE

\* the checks of one criteria on one element: TRUE when no `continue` is taken
criteria_matches(criteria, props, obj_class_name) ==
    IF ~In(obj_class_name, criteria.class_names) THEN FALSE
    ELSE LET prop_name == criteria.property_name
             expected_val == criteria.expected_value
         IN IF truthy(prop_name) /\ expected_val # <<>>
            THEN LET actual_val == find_prop_any_group(props, prop_name.k)
                 IN IF actual_val = PyNone THEN FALSE
                    ELSE lower(strip(str(actual_val))) = lower(expected_val)
            ELSE IF truthy(prop_name)
            THEN find_prop_any_group(props, prop_name.k) # PyNone
            ELSE TRUE

\* match_criteria without the break after the first match
RECURSIVE BadMatchCriteria(_, _, _, _)
BadMatchCriteria(cs, external_id, props, obj_class_name) ==
    IF cs = <<>> THEN <<>>
    ELSE (IF criteria_matches(Head(cs), props, obj_class_name)
          THEN <<[externalElementId |-> external_id, color |-> Head(cs).color]>>
          ELSE <<>>)
         \o BadMatchCriteria(Tail(cs), external_id, props, obj_class_name)

\* the loop over filter_criteria for one element: what it appends
RECURSIVE match_criteria(_, _, _, _)
match_criteria(cs, external_id, props, obj_class_name) ==
    IF cs = <<>> THEN <<>>
    ELSE IF criteria_matches(Head(cs), props, obj_class_name)
         THEN <<[externalElementId |-> external_id, color |-> Head(cs).color]>>
         ELSE match_criteria(Tail(cs), external_id, props, obj_class_name)

\* scan_step that also skips the elements without a P&ID alias
BadScanStep(hl, obj, filter_criteria) ==
    IF ~IsDict(obj) THEN hl
    ELSE IF ~IsDict(obj.properties) THEN hl
    ELSE IF ~truthy(obj.externalId) THEN hl
    ELSE LET obj_class_name == find_prop_any_group(obj.properties, "Class Name") IN
         IF obj_class_name = PyNone THEN hl
         ELSE IF first_pid(obj.properties, pid_keys) = PyNone THEN hl
         ELSE hl \o match_criteria(filter_criteria, obj.externalId,
                                   obj.properties, obj_class_name)

\* one iteration of the loop over the collection
scan_step(hl, obj, filter_criteria) ==
    IF ~IsDict(obj) THEN hl
    ELSE IF ~IsDict(obj.properties) THEN hl
    ELSE IF ~truthy(obj.externalId) THEN hl
    ELSE LET obj_class_name == find_prop_any_group(obj.properties, "Class Name") IN
         IF obj_class_name = PyNone THEN hl
         ELSE hl \o match_criteria(filter_criteria, obj.externalId,
                                   obj.properties, obj_class_name)

RECURSIVE scan_loop(_, _, _)
scan_loop(hl, items, filter_criteria) ==
    IF items = <<>> THEN hl
    ELSE scan_loop(scan_step(hl, Head(items), filter_criteria), Tail(items),
                   filter_criteria)

\* the items `for obj in collection` yields, for the collections that can be
\* iterated: the elements of a list, the characters of a str, the keys of a
\* dict (each a str, whose content the scan never reads)
iter_items(collection) ==
    CASE IsList(collection) -> collection.xs
      [] IsStr(collection) ->
            [i \in 1..Len(collection.s) |-> PyStr(<<collection.s[i]>>)]
      [] IsDict(collection) ->
            [i \in 1..Cardinality(DOMAIN collection.kv) |-> PyStr(<<>>)]

\* qaqc_view from `qc_filters = params.qc_filters or []` on
qaqc_view(filters, payload) ==
    IF filters = <<>> \/ \A i \in 1..Len(filters) : ~truthy(filters[i].class_names)
    THEN Returned(<<>>)
    ELSE LET data == GetOr(payload.data, Data(Absent)) IN
         IF ~IsDict(data) THEN Raised("AttributeError")
         ELSE LET collection == GetOr(data.collection, PyList(<<>>))
                  filter_criteria == build_filter_criteria(filters)
              IN IF filter_criteria = <<>> THEN Returned(<<>>)
                 ELSE IF ~(IsList(collection) \/ IsStr(collection) \/ IsDict(collection))
                 THEN Raised("TypeError")
                 ELSE Returned(scan_loop(<<>>, iter_items(collection), filter_criteria))

-----------------------------------------------------------------------------
(* Inputs *)

\* the lists of at most n items of S
SeqsUpTo(S, n) == UNION {[1..k -> S] : k \in 0..n}

\* the payload shapes around a set of element collections: "data" missing,
\* null or not a mapping; "collection" missing, null or not a list
Payloads(collections) ==
    {Payload(Absent), Payload(PyNone), Payload(PyStr(<<"x">>)), Payload(PyList(<<>>))}
    \cup {Payload(Data(c)) :
            c \in {Absent, PyNone, PyStr(<<"x", "y">>), PyInt(5), Group(<<>>),
                   Group("k" :> PyInt(1))}}
    \cup {Payload(Data(PyList(xs))) : xs \in collections}

A == PyStr(<<"A">>)
V == PyStr(<<"V">>)
W == PyStr(<<"W">>)
Blank == PyStr(<<" ">>)
Name == PyStr(<<"n">>)

\* elements for the tag index and the class counts: repeated tags with and
\* without objectid, tags and class names that need trimming, blank and
\* missing ones, P&ID aliases that are missing, null or shadowed, property
\* groups that are not mappings, and malformed elements
IndexElems ==
    { Obj(PyNone, Name, PyNone,
          Props(<<Group(("Tag" :> A) @@ ("PnPID" :> PyInt(7)) @@ ("Class Name" :> V))>>)),
      Obj(PyNone, Name, PyNone,
          Props(<<Group("Tag" :> PyStr(<<" ", "A">>)),
                  Group(("Tag" :> PyStr(<<"B">>)) @@ ("PID" :> PyInt(2))
                        @@ ("PId" :> PyInt(1)) @@ ("Class Name" :> PyStr(<<"V", " ">>)))>>)),
      Obj(PyInt(2), Name, PyNone,
          Props(<<Group(("Tag" :> A) @@ ("PnPID" :> PyNone) @@ ("P&ID" :> PyStr(<<"x">>)))>>)),
      Obj(PyInt(2), Name, PyNone,
          Props(<<Group(("Tag" :> PyStr(<<"A", " ">>)) @@ ("PnPID" :> PyInt(8))
                        @@ ("Class Name" :> Blank))>>)),
      Obj(PyInt(3), Name, PyNone,
          Props(<<Group(("Tag" :> Blank) @@ ("PnPID" :> PyInt(7)) @@ ("Class Name" :> V))>>)),
      Obj(PyInt(3), Name, PyNone,
          Props(<<Group(("PnPID" :> PyInt(7)) @@ ("Class Name" :> PyNone))>>)),
      Obj(PyInt(4), Name, PyNone,
          Props(<<Group(("Tag" :> A) @@ ("Class Name" :> V))>>)),
      Obj(PyInt(4), Name, PyNone,
          Props(<<Group(("Tag" :> A) @@ ("PnPID" :> PyNone) @@ ("Class Name" :> W))>>)),
      Obj(PyNone, Name, PyNone,
          Props(<<PyStr(<<"x">>),
                  Group(("Tag" :> PyInt(12)) @@ ("PID" :> PyInt(3)) @@ ("Class Name" :> PyInt(5)))>>)),
      Obj(PyNone, Name, PyNone,
          Props(<<Group(("Tag" :> PyStr(<<"A", "#", "d", "u", "p">>)) @@ ("PnPID" :> PyInt(9)))>>)),
      Obj(PyInt(2), Name, PyNone,
          Props(<<Group(("Tag" :> PyStr(<<"A", "#", "2">>)) @@ ("PnPID" :> PyInt(6)))>>)),
      Obj(PyInt(5), Name, PyNone, PyNone),
      PyNone }

\* values of the Status property
On == PyStr(<<"o", "n">>)

ScanObj(externalId, kv) == Obj(PyNone, Name, externalId, Props(<<Group(kv)>>))

E1 == PyStr(<<"1">>)
E2 == PyStr(<<"2">>)

\* elements for the rule order: classes V and W, with and without Status and
\* P&ID, one externalId carried by two elements, elements without externalId
\* or Class Name, malformed elements
ScanElems ==
    { ScanObj(E1, ("Class Name" :> V) @@ ("Status" :> On) @@ ("PnPID" :> PyInt(7))),
      ScanObj(E1, ("Class Name" :> W)),
      ScanObj(E2, ("Class Name" :> V) @@ ("Tag" :> A)),
      ScanObj(PyNone, ("Class Name" :> V) @@ ("Status" :> On)),
      ScanObj(E2, ("Status" :> On) @@ ("PnPID" :> PyInt(7))),
      Obj(PyNone, Name, E2, PyNone) }

Blue == Color("#0000FF")
Green == Color("#00FF00")
Status == Option("Status")
OnText == PyStr(<<"O", "n">>)

\* rows for the rule order: inert rows (no class names), class-only rows,
\* rows with a property, set and unset colors
ScanFilters ==
    { Filter(PyList(<<V>>), PyNone, PyNone, Blue),
      Filter(PyList(<<V, W>>), PyNone, PyStr(<<>>), Green),
      Filter(PyList(<<W>>), PyNone, PyNone, PyNone),
      Filter(PyList(<<V>>), Status, OnText, Green),
      Filter(PyNone, Status, PyNone, Blue) }

\* elements for the rule predicate: Status values that differ in case,
\* surrounding whitespace and type, an empty and a null Status, a Status
\* held by a later group only
MatchElems ==
    { ScanObj(E1, ("Class Name" :> V) @@ ("Status" :> On)),
      ScanObj(E1, ("Class Name" :> V) @@ ("Status" :> PyStr(<<" ", "O", "N", " ">>))),
      ScanObj(E2, ("Class Name" :> V) @@ ("Status" :> PyStr(<<"o">>))),
      ScanObj(E2, ("Class Name" :> V) @@ ("Status" :> PyStr(<<>>))),
      ScanObj(E1, ("Class Name" :> V) @@ ("Status" :> PyNone)),
      ScanObj(E2, ("Class Name" :> V) @@ ("Status" :> PyInt(5))),
      ScanObj(E1, ("Class Name" :> V)),
      Obj(PyNone, Name, E2,
          Props(<<Group("Class Name" :> V), PyNone, Group("Status" :> Blank)>>)) }

\* rows for the rule predicate: expected values with surrounding whitespace,
\* of other case, of whitespace only, empty and unset
MatchFilters ==
    { Filter(PyList(<<V>>), Status, OnText, Blue),
      Filter(PyList(<<V>>), Status, PyStr(<<" ", "o", "N">>), Green),
      Filter(PyList(<<V>>), Status, PyStr(<<"5">>), Blue),
      Filter(PyList(<<V>>), Status, Blank, Green),
      Filter(PyList(<<V>>), Status, PyStr(<<>>), Blue),
      Filter(PyList(<<V>>), Status, PyNone, Green),
      Filter(PyList(<<>>), Status, OnText, Blue) }

\* elements of a malformed collection, and one well-formed element
MalformedElems ==
    { PyNone, PyStr(<<"x">>), PyList(<<>>),
      Obj(PyInt(1), Name, E1, PyNone),
      Obj(PyInt(1), Name, E1, PyList(<<>>)),
      Obj(PyInt(1), Name, E1,
          Props(<<Group(("Tag" :> A) @@ ("PnPID" :> PyInt(7)) @@ ("Class Name" :> V))>>)) }

\* property groups for find_prop_any_group
FindGroups ==
    { PyNone, PyStr(<<"x">>), Group(<<>>),
      Group("Tag" :> A), Group("Tag" :> PyStr(<<"B">>)), Group("Tag" :> PyStr(<<>>)),
      Group("Tag" :> PyNone), Group("Size" :> PyInt(4)),
      Group(("Size" :> PyInt(0)) @@ ("Tag" :> PyInt(3))) }

FindKeys == {"Tag", "Size"}

-----------------------------------------------------------------------------
(* State machine: one request runs one operation to completion *)

NoInput == PyNone

\* no function has been memoized: every store is the empty mapping
EmptyMemo == [tag_index |-> <<>>, class_name_counts |-> <<>>,
              metadata_views |-> <<>>, properties_payload |-> <<>>]

\* no request has been served
NoRequest == [op |-> "none"]

InitResults ==
    /\ pc = "idle"
    /\ raised = "none"
    /\ found = PyNone
    /\ tag_index = <<>>
    /\ counts = <<>>
    /\ highlight_elements = <<>>
    /\ memo = EmptyMemo
    /\ fetches = 0
    /\ request = NoRequest

BuildTagIndex ==
    /\ pc = "idle"
    /\ pc' = "build_tag_index"
    /\ LET r == build_tag_index(properties_payload)
       IN raised' = r.raised /\ tag_index' = r.value
    /\ UNCHANGED <<properties_payload, qc_filters, obj_props, key, found, counts,
                   highlight_elements, memo, fetches, request>>

BuildClassNameCounts ==
    /\ pc = "idle"
    /\ pc' = "build_class_name_counts"
    /\ LET r == build_class_name_counts(properties_payload)
       IN raised' = r.raised /\ counts' = r.value
    /\ UNCHANGED <<properties_payload, qc_filters, obj_props, key, found, tag_index,
                   highlight_elements, memo, fetches, request>>

QaqcView ==
    /\ pc = "idle"
    /\ pc' = "qaqc_view"
    /\ LET r == qaqc_view(qc_filters, properties_payload)
       IN raised' = r.raised /\ highlight_elements' = r.value
    /\ UNCHANGED <<properties_payload, qc_filters, obj_props, key, found, tag_index,
                   counts, memo, fetches, request>>

FindPropAnyGroup ==
    /\ pc = "idle"
    /\ pc' = "find_prop_any_group"
    /\ found' = find_prop_any_group(obj_props, key)
    /\ UNCHANGED <<properties_payload, qc_filters, obj_props, key, raised, tag_index,
                   counts, highlight_elements, memo, fetches, request>>

\* the builders and the scan on well-formed and malformed payloads
Init ==
    /\ properties_payload \in Payloads(SeqsUpTo(MalformedElems, MaxElems))
    /\ qc_filters \in SeqsUpTo({Filter(PyList(<<V>>), PyNone, PyNone, Blue),
                                Filter(PyList(<<>>), PyNone, PyNone, Blue)}, MaxRules)
    /\ obj_props = NoInput
    /\ key = "Tag"
    /\ InitResults

Next == BuildTagIndex \/ BuildClassNameCounts \/ QaqcView

Spec == Init /\ [][Next]_vars

\* the builders on collections of IndexElems
InitIndex ==
    /\ properties_payload \in Payloads(SeqsUpTo(IndexElems, MaxElems))
    /\ qc_filters = <<>>
    /\ obj_props = NoInput
    /\ key = "Tag"
    /\ InitResults

NextIndex == BuildTagIndex \/ BuildClassNameCounts

SpecIndex == InitIndex /\ [][NextIndex]_vars

\* the scan on collections of ScanElems under lists of ScanFilters
InitScan ==
    /\ properties_payload \in Payloads(SeqsUpTo(ScanElems, MaxObjs))
    /\ qc_filters \in SeqsUpTo(ScanFilters, MaxRules)
    /\ obj_props = NoInput
    /\ key = "Tag"
    /\ InitResults

NextScan == QaqcView

SpecScan == InitScan /\ [][NextScan]_vars

\* the scan on collections of MatchElems under lists of MatchFilters
InitMatch ==
    /\ properties_payload \in Payloads(SeqsUpTo(MatchElems, MaxObjs))
    /\ qc_filters \in SeqsUpTo(MatchFilters, MaxMatchRules)
    /\ obj_props = NoInput
    /\ key = "Tag"
    /\ InitResults

SpecMatch == InitMatch /\ [][NextScan]_vars

\* the lookup on every list of FindGroups
InitFind ==
    /\ properties_payload = Payload(Absent)
    /\ qc_filters = <<>>
    /\ obj_props \in {PyNone, PyList(<<>>)}
                     \cup {Props(gs) : gs \in SeqsUpTo(FindGroups, MaxGroups)}
    /\ key \in FindKeys
    /\ InitResults

NextFind == FindPropAnyGroup

SpecFind == InitFind /\ [][NextFind]_vars

-----------------------------------------------------------------------------
(* What the claims speak of, stated on the inputs *)

\* the element collection of the payload; empty when the structure is malformed
Elements ==
    IF IsDict(properties_payload.data) /\ IsList(properties_payload.data.collection)
    THEN properties_payload.data.collection.xs
    ELSE <<>>

WellFormed(e) == IsDict(e) /\ IsDict(e.properties)

\* some property group holds the key
HasKey(props, k) ==
    /\ IsDict(props)
    /\ \E i \in 1..Len(props.groups) :
          IsDict(props.groups[i]) /\ k \in DOMAIN props.groups[i].kv

Resolves(e, k) == find_prop_any_group(e.properties, k) # PyNone

ResolvablePid(e) ==
    Resolves(e, "PnPID") \/ Resolves(e, "PId") \/ Resolves(e, "PID") \/ Resolves(e, "P&ID")

\* the value of the first alias, in the order PnPID, PId, PID, P&ID, that resolves
FirstAliasPid(e) ==
    IF Resolves(e, "PnPID") THEN find_prop_any_group(e.properties, "PnPID")
    ELSE IF Resolves(e, "PId") THEN find_prop_any_group(e.properties, "PId")
    ELSE IF Resolves(e, "PID") THEN find_prop_any_group(e.properties, "PID")
    ELSE find_prop_any_group(e.properties, "P&ID")

TrimmedTag(e) == strip(str(find_prop_any_group(e.properties, "Tag")))

\* well-formed properties, non-blank trimmed Tag, resolvable P&ID alias
Eligible(e) ==
    /\ WellFormed(e)
    /\ Resolves(e, "Tag")
    /\ TrimmedTag(e) # <<>>
    /\ ResolvablePid(e)

RecordOf(e) ==
    [objectid |-> e.objectid, name |-> e.name, pid |-> FirstAliasPid(e),
     properties |-> e.properties]

\* "t#<object id>", or "t#dup" when the object id is absent
DupKey(e) ==
    TrimmedTag(e) \o (IF e.objectid = PyNone THEN <<"#", "d", "u", "p">>
                      ELSE <<"#">> \o str(e.objectid))

FirstWithTag(i) ==
    \A j \in 1..(i - 1) :
        ~(Eligible(Elements[j]) /\ TrimmedTag(Elements[j]) = TrimmedTag(Elements[i]))

TagIndexBuilt == pc = "build_tag_index" /\ raised = "none"

\* C1: after build_tag_index, the bare key t holds the record of the first
\* eligible element with trimmed tag t, and every later eligible element with
\* that tag is held under "t#<object id>" ("t#dup" without object id): no
\* entry is overwritten by a later element.
C1_FirstOccurrenceOwnsTag ==
    TagIndexBuilt =>
        \A i \in 1..Len(Elements) :
            Eligible(Elements[i]) =>
                LET k == IF FirstWithTag(i) THEN TrimmedTag(Elements[i])
                         ELSE DupKey(Elements[i])
                IN k \in DOMAIN tag_index /\ tag_index[k] = RecordOf(Elements[i])

\* C2: every entry of the tag index is the record of an eligible element, with
\* a pid that is not None and is the value of the first alias (PnPID, PId, PID,
\* P&ID) that resolves; an element with an absent or blank Tag, or without a
\* resolvable alias, has no entry under any key.
C2_EntriesCarryFirstResolvingPid ==
    TagIndexBuilt =>
        /\ \A k \in DOMAIN tag_index :
              /\ tag_index[k].pid # PyNone
              /\ \E i \in 1..Len(Elements) :
                    Eligible(Elements[i]) /\ tag_index[k] = RecordOf(Elements[i])
        /\ \A i \in 1..Len(Elements) :
              (IsDict(Elements[i]) /\ ~Eligible(Elements[i])) =>
                  \A k \in DOMAIN tag_index :
                      tag_index[k].properties # Elements[i].properties

\* C2's case: an entry of an element with two resolvable aliases carries the
\* value of the earlier alias, and an element without Tag or alias was skipped
C2_Witness ==
    /\ TagIndexBuilt
    /\ \E k \in DOMAIN tag_index :
          /\ tag_index[k].pid = PyInt(1)
          /\ find_prop_any_group(tag_index[k].properties, "PID") = PyInt(2)
    /\ \E i \in 1..Len(Elements) : WellFormed(Elements[i]) /\ ~Eligible(Elements[i])

CountsBuilt == pc = "build_class_name_counts" /\ raised = "none"

\* the indices of the elements with at least one resolvable P&ID alias
Counted == {i \in 1..Len(Elements) : WellFormed(Elements[i]) /\ ResolvablePid(Elements[i])}

\* the trimmed Class Name, or "Unknown" when it is absent or blank
Bucket(e) ==
    LET cn == find_prop_any_group(e.properties, "Class Name") IN
    IF cn = PyNone \/ strip(str(cn)) = <<>>
    THEN <<"U", "n", "k", "n", "o", "w", "n">>
    ELSE strip(str(cn))

RECURSIVE SumOver(_, _)
SumOver(f, S) ==
    IF S = {} THEN 0 ELSE LET x == CHOOSE y \in S : TRUE IN f[x] + SumOver(f, S \ {x})

\* C3: the values of build_class_name_counts sum to the number of elements
\* with a resolvable P&ID alias, each counted once under its trimmed Class
\* Name, or under "Unknown" when the Class Name is absent or blank.
C3_CountsPartitionPidElements ==
    CountsBuilt =>
        /\ DOMAIN counts = {Bucket(Elements[i]) : i \in Counted}
        /\ \A c \in DOMAIN counts :
              counts[c] = Cardinality({i \in Counted : Bucket(Elements[i]) = c})
        /\ SumOver(counts, DOMAIN counts) = Cardinality(Counted)

\* C3's case: an element counted under "Unknown", one counted under a Class
\* Name that needed trimming, and an element without alias left out
C3_Witness ==
    /\ CountsBuilt
    /\ Unknown \in DOMAIN counts
    /\ <<"V">> \in DOMAIN counts
    /\ \E i \in Counted :
          find_prop_any_group(Elements[i].properties, "Class Name") = PyStr(<<"V", " ">>)
    /\ Cardinality(Counted) < Len(Elements)

-----------------------------------------------------------------------------
(* The highlight scan *)

Scanned == pc = "qaqc_view" /\ raised = "none"

ClassOf(e) == find_prop_any_group(e.properties, "Class Name")

\* the scan considers the element: well-formed, with externalId and Class Name
Highlightable(e) == WellFormed(e) /\ truthy(e.externalId) /\ ClassOf(e) # PyNone

\* the row names class names, and the element's Class Name is one of them
ClassIn(e, f) == truthy(f.class_names) /\ In(ClassOf(e), f.class_names.xs)

\* the row's expected value as the user typed it ("" when unset)
TypedValue(f) == IF f.expected_value = PyNone THEN <<>> ELSE f.expected_value.s

\* the color of a row: the user's, or the fixed red when unset
RowColor(f) == IF f.highlight_color = PyNone THEN "#FF0000" ELSE f.highlight_color.hex

\* the predicate of a row as the scan evaluates it
Satisfies(e, f) ==
    /\ ClassIn(e, f)
    /\ f.property_name # PyNone =>
          /\ Resolves(e, f.property_name.k)
          /\ strip(TypedValue(f)) # <<>> =>
                lower(strip(str(find_prop_any_group(e.properties, f.property_name.k))))
                    = lower(strip(TypedValue(f)))

\* the highlight list in which every highlightable element that satisfies a
\* row under Sat carries the color of the earliest such row of qc_filters
ExpectedHighlights(Sat(_, _)) ==
    LET Rows(e) == {r \in 1..Len(qc_filters) : Sat(e, qc_filters[r])}
        First(e) == CHOOSE r \in Rows(e) : \A q \in Rows(e) : r <= q
        One(e) == IF Highlightable(e) /\ Rows(e) # {}
                  THEN <<[externalElementId |-> e.externalId,
                          color |-> RowColor(qc_filters[First(e)])]>>
                  ELSE <<>>
        acc[i \in 0..Len(Elements)] ==
            IF i = 0 THEN <<>> ELSE acc[i - 1] \o One(Elements[i])
    IN acc[Len(Elements)]

\* C4: first-match-wins: an element that satisfies one or more rows is
\* highlighted with the color of the earliest such row in the user's order;
\* rows without class names are inert and do not change the order of the rest.
C4_FirstMatchWins == Scanned => highlight_elements = ExpectedHighlights(Satisfies)

\* C4's case: an element satisfies two rows of different colors, an inert row
\* or a row it fails comes first, and it carries the earlier satisfied color
C4_Witness ==
    /\ Scanned
    /\ Len(qc_filters) = 3
    /\ \E i \in 1..Len(Elements) :
          /\ Highlightable(Elements[i])
          /\ ~Satisfies(Elements[i], qc_filters[1])
          /\ Satisfies(Elements[i], qc_filters[2])
          /\ Satisfies(Elements[i], qc_filters[3])
          /\ RowColor(qc_filters[2]) # RowColor(qc_filters[3])
          /\ \E k \in 1..Len(highlight_elements) :
                highlight_elements[k] =
                    [externalElementId |-> Elements[i].externalId,
                     color |-> RowColor(qc_filters[2])]

\* the number of highlight entries with externalElementId x
Entries(x) ==
    Cardinality({k \in 1..Len(highlight_elements) :
                    highlight_elements[k].externalElementId = x})

\* the externalId values of the collection's elements
ExternalIds == {Elements[i].externalId : i \in {j \in 1..Len(Elements) : IsDict(Elements[j])}}

\* C5 as claimed: no externalElementId appears twice in the highlight list,
\* also when several elements carry the same externalId.
C5_OnePerExternalId ==
    Scanned =>
        \A k, l \in 1..Len(highlight_elements) :
            k # l => highlight_elements[k].externalElementId
                        # highlight_elements[l].externalElementId

\* C5 as amended: at most one highlight entry per collection element: an
\* externalElementId appears at most as often as elements carry it.
C5_OnePerElement ==
    Scanned =>
        /\ Len(highlight_elements) <= Len(Elements)
        /\ \A k \in 1..Len(highlight_elements) :
              Entries(highlight_elements[k].externalElementId)
                <= Cardinality({i \in 1..Len(Elements) :
                        /\ IsDict(Elements[i])
                        /\ Elements[i].externalId
                              = highlight_elements[k].externalElementId})

\* C5's case: two elements carry one externalId, both are highlighted, and one
\* of them satisfies two rows
C5_Witness ==
    /\ Scanned
    /\ Len(highlight_elements) = 2
    /\ highlight_elements[1].externalElementId = highlight_elements[2].externalElementId
    /\ \E i \in 1..Len(Elements) :
          Cardinality({r \in 1..Len(qc_filters) : Satisfies(Elements[i], qc_filters[r])}) > 1

\* the rows that name class names and no property
ClassOnlyRows == {r \in 1..Len(qc_filters) :
                    truthy(qc_filters[r].class_names) /\ qc_filters[r].property_name = PyNone}

\* the elements whose resolved Class Name is in the set of a class-only row
ClassOnlyMatched ==
    {i \in 1..Len(Elements) :
        /\ WellFormed(Elements[i])
        /\ \E r \in ClassOnlyRows : In(ClassOf(Elements[i]), qc_filters[r].class_names.xs)}

\* C6 as claimed: every element whose Class Name is in the set of a row with
\* class names and no property receives a highlight assignment, whatever its
\* other properties.
C6_ClassOnlyRowMatchesAll ==
    Scanned =>
        \A x \in ExternalIds :
            Entries(x) >= Cardinality({i \in ClassOnlyMatched : Elements[i].externalId = x})

\* C6 as amended: every element with a non-empty externalId whose Class Name
\* is in the set of such a row receives a highlight assignment, whatever its
\* other properties.
C6_ClassOnlyRowMatchesIdentified ==
    Scanned =>
        \A x \in {y \in ExternalIds : truthy(y)} :
            Entries(x) >= Cardinality({i \in ClassOnlyMatched : Elements[i].externalId = x})

\* C6's case: a class-only row highlights an element that has neither a P&ID
\* alias nor a Tag
C6_Witness ==
    /\ Scanned
    /\ \E i \in ClassOnlyMatched :
          /\ truthy(Elements[i].externalId)
          /\ ~ResolvablePid(Elements[i])
          /\ ~Resolves(Elements[i], "Tag")
          /\ Entries(Elements[i].externalId) > 0

-----------------------------------------------------------------------------
(* The predicate of a row with a property *)

\* the rows that name class names
ActiveRows == {r \in 1..Len(qc_filters) : truthy(qc_filters[r].class_names)}

\* every row that names class names also names a property and a typed
\* expected value that is not empty
AllRowsExpectValue ==
    \A r \in ActiveRows :
        qc_filters[r].property_name # PyNone /\ TypedValue(qc_filters[r]) # <<>>

\* the property resolves to a value whose string form, trimmed and
\* lower-cased, equals v lower-cased
ValueEquals(e, f, v) ==
    /\ ClassIn(e, f)
    /\ Resolves(e, f.property_name.k)
    /\ lower(strip(str(find_prop_any_group(e.properties, f.property_name.k)))) = lower(v)

EqualsTypedValue(e, f) == ValueEquals(e, f, TypedValue(f))

\* C7 as claimed: a row with a property P and a non-empty expected value V
\* matches an element of its class set exactly when P resolves to a value
\* whose string form, trimmed and lower-cased, equals V lower-cased.
C7_MatchesTypedValue ==
    (Scanned /\ AllRowsExpectValue) =>
        highlight_elements = ExpectedHighlights(EqualsTypedValue)

\* every row that names class names also names a property and a typed
\* expected value that is not blank
AllRowsExpectNonBlank ==
    \A r \in ActiveRows :
        qc_filters[r].property_name # PyNone /\ strip(TypedValue(qc_filters[r])) # <<>>

EqualsTrimmedValue(e, f) == ValueEquals(e, f, strip(TypedValue(f)))

\* C7 as amended: a row with a property P and an expected value V that is not
\* blank matches an element of its class set exactly when P resolves to a
\* value whose string form, trimmed and lower-cased, equals V trimmed and
\* lower-cased.
C7_MatchesTrimmedValue ==
    (Scanned /\ AllRowsExpectNonBlank) =>
        highlight_elements = ExpectedHighlights(EqualsTrimmedValue)

\* C7's case: a row whose expected value differs from the element's Status in
\* case and in surrounding whitespace on both sides highlights the element,
\* and an element with another Status is left out
C7_Witness ==
    /\ Scanned
    /\ AllRowsExpectNonBlank
    /\ Len(qc_filters) = 1
    /\ TypedValue(qc_filters[1]) = <<" ", "o", "N">>
    /\ Len(Elements) = 2
    /\ find_prop_any_group(Elements[1].properties, "Status") = PyStr(<<" ", "O", "N", " ">>)
    /\ find_prop_any_group(Elements[2].properties, "Status") = PyStr(<<"o">>)
    /\ Len(highlight_elements) = 1
    /\ highlight_elements[1].externalElementId = Elements[1].externalId

\* every row that names class names also names a property, and its expected
\* value is empty or unset
AllRowsCheckExistence ==
    \A r \in ActiveRows :
        qc_filters[r].property_name # PyNone /\ TypedValue(qc_filters[r]) = <<>>

KeyExists(e, f) == ClassIn(e, f) /\ HasKey(e.properties, f.property_name.k)

\* C8: a row with a property P and an empty or unset expected value matches
\* an element of its class set exactly when some property group of the
\* element holds the key P, whatever the value under it (also null).
C8_ExistenceIgnoresValue ==
    (Scanned /\ AllRowsCheckExistence) =>
        highlight_elements = ExpectedHighlights(KeyExists)

-----------------------------------------------------------------------------
(* The lookup *)

\* the value under k in the first group, in iteration order, that holds k
FirstHolder(props, k) ==
    LET holders == {i \in 1..Len(props.groups) :
                       IsDict(props.groups[i]) /\ k \in DOMAIN props.groups[i].kv}
        first == CHOOSE i \in holders : \A j \in holders : i <= j
    IN props.groups[first].kv[k]

\* C9: find_prop_any_group returns the value under key in the first group that
\* holds key, and returns the absent signal (None) exactly when no group holds
\* key or properties is not a mapping, so that a caller can tell a property
\* that exists from one that does not.
C9_AbsentExactlyWhenNoGroupHoldsKey ==
    pc = "find_prop_any_group" =>
        /\ HasKey(obj_props, key) => found = FirstHolder(obj_props, key)
        /\ found = PyNone <=> ~HasKey(obj_props, key)

-----------------------------------------------------------------------------
(* Malformed structure *)

\* the payload's "data" is a mapping (or missing) and its "collection" a list
\* (or missing)
WellFormedPayload ==
    LET data == properties_payload.data IN
    \/ data = Absent
    \/ IsDict(data) /\ (data.collection = Absent \/ IsList(data.collection))

\* C10: on a payload of malformed structure no operation raises; the builders
\* return an empty mapping, and the scan an empty highlight list, when "data"
\* or "collection" is malformed, and malformed elements are skipped.
C10_MalformedIsNeverAFault ==
    pc # "idle" =>
        /\ raised = "none"
        /\ ~WellFormedPayload =>
              tag_index = <<>> /\ counts = <<>> /\ highlight_elements = <<>>

-----------------------------------------------------------------------------
(* to_md_urn and the memoized derivations *)

\* most upstream fetches in one run of the process
MaxFetches == 2

\* a URN string: "urn:" (when prefixed) + body + padding times "="
Urn(prefixed, body, padding) ==
    [t |-> "str", prefixed |-> prefixed, body |-> body, padding |-> padding]

\* to_md_urn: a "urn:"-prefixed value is base64url-encoded as a whole and its
\* padding stripped (the encoding is one-to-one, so it is kept as the value it
\* encodes); any other value loses its trailing "="
to_md_urn(value) ==
    IF value.prefixed THEN [t |-> "str", b64 |-> value]
    ELSE [t |-> "str", raw |-> value.body]

\* the key vkt.memoize files a call under: the keyword arguments of the call
BadMemoKey(args) == [a \in (DOMAIN args) \ {"token"} |-> args[a]]
memo_key(args) == args

\* vkt.memoize: a result is stored under the key of the call
memo_has(m, fn, k) == k \in DOMAIN m[fn]
memo_store(m, fn, k, v) == [m EXCEPT ![fn] = Put(@, k, v)]

\* the outcomes of one call of a memoized function fn with arguments args,
\* from m stored results and n fetches so far: a stored result is returned
\* without running the body; otherwise the body runs, fetching from upstream
\* (the fetch fails, or the body ends in one of `results`), and what it
\* returns is stored.  Each outcome: the stores and fetch count after the
\* call, whether the result came from the store, the exception raised, the
\* value returned.
MemoOutcomes(m, n, fn, args, results) ==
    LET k == memo_key(args) IN
    IF memo_has(m, fn, k)
    THEN {[memo |-> m, fetches |-> n, hit |-> TRUE, raised |-> "none",
           value |-> m[fn][k]]}
    ELSE IF n >= MaxFetches THEN {}
    ELSE {[memo |-> m, fetches |-> n + 1, hit |-> FALSE,
           raised |-> "UpstreamError", value |-> <<>>]}
         \cup {IF r.raised = "none"
               THEN [memo |-> memo_store(m, fn, k, r.value),
                     fetches |-> n + 1, hit |-> FALSE, raised |-> "none",
                     value |-> r.value]
               ELSE [memo |-> m, fetches |-> n + 1, hit |-> FALSE,
                     raised |-> r.raised, value |-> <<>>]
               : r \in results}

\* the bodies of the memoized functions, on the upstream answer
get_class_name_counts_cached(properties) == build_class_name_counts(properties)
get_properties_payload_cached(properties) == Returned(properties)
get_metadata_views_cached(metadata_views) ==
    Returned(IF truthy(metadata_views) THEN metadata_views.xs ELSE <<>>)
get_tag_index_cached(properties) == build_tag_index(properties)

\* the call a request made to a memoized function
NoCall == [fn |-> "none"]
Call(fn, args, o) ==
    [fn |-> fn, args |-> args, hit |-> o.hit, raised |-> o.raised, value |-> o.value]

-----------------------------------------------------------------------------
(* The requests: option lists and views *)

File == [t |-> "AutodeskFile"]
Guid == PyStr(<<"g">>)
\* params.autodesk_file and params.selected_view: set or not
Files == {PyNone, File}
Selections == {PyNone, PyStr(<<>>), Guid}
\* integration.get_access_token(): the token rotates
Tokens == {"token1", "token2"}
\* autodesk_file.get_latest_version(token).urn: the version URN of the file
VersionUrns == {Urn(TRUE, "v1", 0)}

V_W == PyStr(<<"V", "_", "W">>)
\* what get_all_model_properties may answer
UpstreamProperties ==
    { Payload(Data(PyList(<<>>))),
      Payload(Data(PyList(<<
          Obj(PyInt(1), Name, E1,
              Props(<<Group(("Tag" :> PyStr(<<"B">>)) @@ ("PnPID" :> PyInt(7))
                            @@ ("Class Name" :> V))>>)),
          Obj(PyInt(2), Name, E2,
              Props(<<Group(("Tag" :> A) @@ ("PnPID" :> PyInt(7))
                            @@ ("Class Name" :> V_W))>>))>>))) }

\* a viewable descriptor; a field is Absent when the key is missing
Viewable(name, guid, role) == [t |-> "dict", name |-> name, guid |-> guid, role |-> role]
\* what get_metadata_viewables may answer
UpstreamViews ==
    { PyNone,
      PyList(<<Viewable(PyStr(<<"S">>), Guid, PyStr(<<"3", "d">>)),
               Viewable(Absent, PyNone, Absent)>>) }

\* what the requests leave alone: the filter rows of the params, and the
\* inputs and results of the operations taken one at a time
program_state == <<properties_payload, qc_filters, obj_props, key, pc, raised, found,
                   tag_index, counts, highlight_elements>>

Respond(op, file, view, effects, call, error, result) ==
    [op |-> op, autodesk_file |-> file, selected_view |-> view,
     effects |-> effects, call |-> call, error |-> error, result |-> result]

\* not_selected that takes only None for a missing selection
BadNotSelected(selection) == selection = PyNone

\* `not autodesk_file`, `not selected_guid`: nothing is selected
not_selected(selection) == ~truthy(selection)

\* what a request does before it can call a memoized function
Resolved == {"get_access_token", "get_latest_version"}
\* what the call of a memoized function does
CallEffects(o) == {"memoize"} \cup (IF o.hit THEN {} ELSE {"upstream_fetch"})

\* a request that raised handed nothing back
NoResult == [kind |-> "none"]
Options(xs) == [kind |-> "options", options |-> xs]
OptionListElement(label, value) == [label |-> label, value |-> value]

\* the options of get_viewables: one per viewable with a guid
RECURSIVE viewable_options(_)
viewable_options(metadata_views) ==
    IF metadata_views = <<>> THEN <<>>
    ELSE LET viewable == Head(metadata_views)
             name == GetOr(viewable.name,
                           PyStr(<<"U", "n", "k", "n", "o", "w", "n", " ", "V", "i", "e", "w">>))
             role == GetOr(viewable.role, PyStr(<<>>))
             label == IF truthy(role)
                      THEN name.s \o <<" ", "(">> \o role.s \o <<")">>
                      ELSE name.s
         IN (IF truthy(viewable.guid)
             THEN <<OptionListElement(label, viewable.guid)>> ELSE <<>>)
            \o viewable_options(Tail(metadata_views))

GetViewables ==
    /\ UNCHANGED program_state
    /\ \E file \in Files, view \in Selections :
        IF not_selected(file)
        THEN /\ request' = Respond("get_viewables", file, view, {}, NoCall, "none",
                                   Options(<<>>))
             /\ UNCHANGED <<memo, fetches>>
        ELSE \E token \in Tokens, version_urn \in VersionUrns :
             LET args == [token |-> token, urn_bs64 |-> to_md_urn(version_urn)] IN
             \E o \in MemoOutcomes(memo, fetches, "metadata_views", args,
                                   {get_metadata_views_cached(answer) : answer \in UpstreamViews}) :
                /\ memo' = o.memo
                /\ fetches' = o.fetches
                /\ request' = Respond("get_viewables", file, view,
                                      Resolved \cup CallEffects(o),
                                      Call("metadata_views", args, o), o.raised,
                                      IF o.raised # "none" THEN NoResult
                                      ELSE Options(viewable_options(o.value)))

\* the characters of the model's strings, by code point
CodePoints == <<" ", "#", "&", "(", ")", "0", "1", "2", "3", "4", "5", "6", "7",
                "8", "9", "A", "B", "S", "U", "V", "W", "_", "d", "e", "g", "i",
                "k", "n", "o", "p", "u", "w">>
ord(c) == CHOOSE i \in 1..Len(CodePoints) : CodePoints[i] = c

\* a < b for two Python strings
RECURSIVE str_lt(_, _)
str_lt(a, b) ==
    IF b = <<>> THEN FALSE
    ELSE IF a = <<>> THEN TRUE
    ELSE IF Head(a) # Head(b) THEN ord(Head(a)) < ord(Head(b))
    ELSE str_lt(Tail(a), Tail(b))

\* sorted(keys), for a set of Python strings
RECURSIVE sorted(_)
sorted(keys) ==
    IF keys = {} THEN <<>>
    ELSE LET least == CHOOSE k \in keys : \A x \in keys \ {k} : str_lt(k, x)
         IN <<least>> \o sorted(keys \ {least})

\* the options of get_tag_options: label and value are the tag
tag_options(tags) == [i \in 1..Len(tags) |-> OptionListElement(tags[i], tags[i])]

GetTagOptions ==
    /\ UNCHANGED program_state
    /\ \E file \in Files, view \in Selections :
        IF not_selected(file)
        THEN /\ request' = Respond("get_tag_options", file, view, {}, NoCall, "none",
                                   Options(<<>>))
             /\ UNCHANGED <<memo, fetches>>
        ELSE IF not_selected(view)
        THEN /\ request' = Respond("get_tag_options", file, view, {}, NoCall, "none",
                                   Options(<<>>))
             /\ UNCHANGED <<memo, fetches>>
        ELSE \E token \in Tokens, version_urn \in VersionUrns :
             LET args == [token |-> token, urn_bs64 |-> to_md_urn(version_urn),
                          model_guid |-> view] IN
             \E o \in MemoOutcomes(memo, fetches, "tag_index", args,
                                   {get_tag_index_cached(answer) : answer \in UpstreamProperties}) :
                /\ memo' = o.memo
                /\ fetches' = o.fetches
                /\ request' = Respond("get_tag_options", file, view,
                                      Resolved \cup CallEffects(o),
                                      Call("tag_index", args, o), o.raised,
                                      IF o.raised # "none" THEN NoResult
                                      ELSE Options(tag_options(sorted(DOMAIN o.value))))

\* sorted(class_counts.items(), key=count, reverse=True): the class names by
\* descending count; names of equal count keep the order in which they were
\* first counted, which the dict as a function does not record, so any order
\* of them
by_count_desc(class_counts) ==
    LET names == DOMAIN class_counts
        n == Cardinality(names)
    IN {items \in [1..n -> names] :
           /\ \A i, j \in 1..n : i # j => items[i] # items[j]
           /\ \A i, j \in 1..n : i < j => class_counts[items[i]] >= class_counts[items[j]]}

\* class_name.replace('_', ' ')
replace_underscores(class_name) ==
    [i \in 1..Len(class_name) |-> IF class_name[i] = "_" THEN " " ELSE class_name[i]]

\* the options of get_class_name_options: "<display name> (<count>)"
class_name_options(class_counts, sorted_items) ==
    [i \in 1..Len(sorted_items) |->
        OptionListElement(replace_underscores(sorted_items[i]) \o <<" ", "(">>
                              \o str(PyInt(class_counts[sorted_items[i]])) \o <<")">>,
                          sorted_items[i])]

GetClassNameOptions ==
    /\ UNCHANGED program_state
    /\ \E file \in Files, view \in Selections :
        IF not_selected(file)
        THEN /\ request' = Respond("get_class_name_options", file, view, {}, NoCall,
                                   "none", Options(<<>>))
             /\ UNCHANGED <<memo, fetches>>
        ELSE IF not_selected(view)
        THEN /\ request' = Respond("get_class_name_options", file, view, {}, NoCall,
                                   "none", Options(<<>>))
             /\ UNCHANGED <<memo, fetches>>
        ELSE \E token \in Tokens, version_urn \in VersionUrns :
             LET args == [token |-> token, urn_bs64 |-> to_md_urn(version_urn),
                          model_guid |-> view] IN
             \E o \in MemoOutcomes(memo, fetches, "class_name_counts", args,
                                   {get_class_name_counts_cached(answer) : answer \in UpstreamProperties}) :
                /\ memo' = o.memo
                /\ fetches' = o.fetches
                /\ IF o.raised # "none"
                   THEN request' = Respond("get_class_name_options", file, view,
                                           Resolved \cup CallEffects(o),
                                           Call("class_name_counts", args, o),
                                           o.raised, NoResult)
                   ELSE \E sorted_items \in by_count_desc(o.value) :
                        request' = Respond("get_class_name_options", file, view,
                                           Resolved \cup CallEffects(o),
                                           Call("class_name_counts", args, o), "none",
                                           Options(class_name_options(o.value, sorted_items)))

\* an APSViewer: what it was built for, the view set and the highlights
\* applied
APSViewer(urn, token) ==
    [urn |-> urn, token |-> token, view |-> PyNone, highlights |-> <<>>]
set_view_guid(viewer, guid, name, role) ==
    [viewer EXCEPT !.view = [guid |-> guid, name |-> name, role |-> role]]

\* vkt.WebResult(html=...): a fixed page, or the page the viewer writes
Html(html) == [kind |-> "html", html |-> html]
Page(viewer) == [kind |-> "viewer", viewer |-> viewer]

DwgView ==
    /\ UNCHANGED program_state
    /\ UNCHANGED <<memo, fetches>>
    /\ \E file \in Files, view \in Selections :
        IF not_selected(file)
        THEN request' = Respond("dwg_view", file, view, {}, NoCall, "none",
                                Html("<p>Please select a Plant 3D file.</p>"))
        ELSE \E token \in Tokens, version_urn \in VersionUrns :
             request' = Respond("dwg_view", file, view, Resolved, NoCall, "none",
                                Page(APSViewer(version_urn, token)))

\* the figure that carries only a message
Annotation(text) == [kind |-> "figure", annotation |-> text]

top_n == 8

RECURSIVE sum(_)
sum(values) == IF values = <<>> THEN 0 ELSE Head(values) + sum(Tail(values))

reversed(xs) == [i \in 1..Len(xs) |-> xs[Len(xs) + 1 - i]]

\* the figure of quantity_takeoff_view for the class names in sorted order:
\* the data of the pie and the bar traces, the total and the height (colors,
\* fonts and hover texts are styling of the same data)
quantity_chart(class_counts, sorted_items) ==
    LET labels == [i \in 1..Len(sorted_items) |-> replace_underscores(sorted_items[i])]
        values == [i \in 1..Len(sorted_items) |-> class_counts[sorted_items[i]]]
        total_count == sum(values)
        n == Len(labels)
    IN [kind |-> "figure", annotation |-> "none",
        pie_labels |-> IF n > top_n
                       THEN SubSeq(labels, 1, top_n) \o <<<<"O", "t", "h", "e", "r">>>>
                       ELSE labels,
        pie_values |-> IF n > top_n
                       THEN SubSeq(values, 1, top_n) \o <<sum(SubSeq(values, top_n + 1, n))>>
                       ELSE values,
        bar_labels |-> reversed(labels),
        bar_values |-> reversed(values),
        total_count |-> total_count,
        chart_height |-> IF n * 25 + 150 > 500 THEN n * 25 + 150 ELSE 500]

QuantityTakeoffView ==
    /\ UNCHANGED program_state
    /\ \E file \in Files, view \in Selections :
        IF not_selected(file) \/ not_selected(view)
        THEN /\ request' = Respond("quantity_takeoff_view", file, view, {}, NoCall, "none",
                                   Annotation("Please select a Plant 3D file and viewable"))
             /\ UNCHANGED <<memo, fetches>>
        ELSE \E token \in Tokens, version_urn \in VersionUrns :
             LET args == [token |-> token, urn_bs64 |-> to_md_urn(version_urn),
                          model_guid |-> view] IN
             \E o \in MemoOutcomes(memo, fetches, "class_name_counts", args,
                                   {get_class_name_counts_cached(answer) : answer \in UpstreamProperties}) :
                /\ memo' = o.memo
                /\ fetches' = o.fetches
                /\ IF o.raised # "none"
                   THEN request' = Respond("quantity_takeoff_view", file, view,
                                           Resolved \cup CallEffects(o),
                                           Call("class_name_counts", args, o),
                                           o.raised, NoResult)
                   ELSE IF o.value = <<>>
                   THEN request' = Respond("quantity_takeoff_view", file, view,
                                           Resolved \cup CallEffects(o),
                                           Call("class_name_counts", args, o), "none",
                                           Annotation("No PID elements found in the selected view"))
                   ELSE \E sorted_items \in by_count_desc(o.value) :
                        request' = Respond("quantity_takeoff_view", file, view,
                                           Resolved \cup CallEffects(o),
                                           Call("class_name_counts", args, o), "none",
                                           quantity_chart(o.value, sorted_items))

\* the viewer of qaqc_view after "Get viewables and set the selected view":
\* the viewable with the selected guid, else the first one; a viewable chosen
\* without a "guid" key is a KeyError
select_viewable(viewer, viewables, selected_guid) ==
    IF ~truthy(viewables) THEN Returned(viewer)
    ELSE LET matching == {i \in 1..Len(viewables.xs) :
                             GetOr(viewables.xs[i].guid, PyNone) = selected_guid}
             selected_viewable ==
                 IF matching # {}
                 THEN viewables.xs[CHOOSE i \in matching : \A j \in matching : i <= j]
                 ELSE viewables.xs[1]
         IN IF selected_viewable.guid = Absent THEN Raised("KeyError")
            ELSE Returned(set_view_guid(viewer, selected_viewable.guid,
                                        GetOr(selected_viewable.name, PyStr(<<"V", "i", "e", "w">>)),
                                        GetOr(selected_viewable.role, PyStr(<<"3", "d">>))))

\* `not qc_filters or all(not f.get("class_names") for f in qc_filters)`
no_filters(filters) ==
    filters = <<>> \/ \A i \in 1..Len(filters) : ~truthy(filters[i].class_names)

\* Controller.qaqc_view, the whole handler
QaqcViewRequest ==
    /\ UNCHANGED program_state
    /\ \E file \in Files, view \in Selections :
        IF not_selected(file)
        THEN /\ request' = Respond("qaqc_view", file, view, {}, NoCall, "none",
                                   Html("<p>Please select a Plant 3D file.</p>"))
             /\ UNCHANGED <<memo, fetches>>
        ELSE IF not_selected(view)
        THEN /\ request' = Respond("qaqc_view", file, view, {}, NoCall, "none",
                                   Html("<p>Please select a viewable.</p>"))
             /\ UNCHANGED <<memo, fetches>>
        ELSE \E token \in Tokens, version_urn \in VersionUrns, viewables \in UpstreamViews :
             LET args == [token |-> token, urn_bs64 |-> to_md_urn(version_urn),
                          model_guid |-> view]
                 viewer == select_viewable(APSViewer(version_urn, token), viewables, view)
                 fetched == Resolved \cup {"viewer.get_viewables"}
             IN
             IF viewer.raised # "none"
             THEN /\ request' = Respond("qaqc_view", file, view, fetched, NoCall,
                                        viewer.raised, NoResult)
                  /\ UNCHANGED <<memo, fetches>>
             ELSE IF no_filters(qc_filters)
             THEN /\ request' = Respond("qaqc_view", file, view, fetched, NoCall, "none",
                                        Page(viewer.value))
                  /\ UNCHANGED <<memo, fetches>>
             ELSE \E o \in MemoOutcomes(memo, fetches, "properties_payload", args,
                                   {get_properties_payload_cached(answer) : answer \in UpstreamProperties}) :
                /\ memo' = o.memo
                /\ fetches' = o.fetches
                /\ LET scan == IF o.raised # "none" THEN Raised(o.raised)
                               ELSE qaqc_view(qc_filters, o.value)
                   IN request' = Respond("qaqc_view", file, view,
                                         fetched \cup CallEffects(o),
                                         Call("properties_payload", args, o), scan.raised,
                                         IF scan.raised # "none" THEN NoResult
                                         ELSE Page([viewer.value EXCEPT
                                                       !.highlights = scan.value]))

\* the requests of one process, in any order, on one set of filter rows
InitRequests ==
    /\ properties_payload = NoInput
    /\ qc_filters \in {<<>>, <<Filter(PyList(<<V>>), PyNone, PyNone, Blue)>>}
    /\ obj_props = NoInput
    /\ key = "Tag"
    /\ InitResults

NextRequests ==
    \/ GetViewables
    \/ GetTagOptions
    \/ GetClassNameOptions
    \/ DwgView
    \/ QuantityTakeoffView
    \/ QaqcViewRequest

SpecRequests == InitRequests /\ [][NextRequests]_vars

-----------------------------------------------------------------------------
(* The caching contract *)

\* the memoized derivations
Cached == {"tag_index", "class_name_counts", "metadata_views", "properties_payload"}

\* an earlier call of fn with these arguments completed
Completed(fn, args) == args \in DOMAIN memo[fn]

\* the request called a memoized function
Called == request # NoRequest /\ request.call # NoCall

\* C11: over any sequence of requests in one process, a call of a memoized
\* derivation whose key arguments are identical to those of an earlier
\* completed call returns the earlier result without another upstream fetch;
\* a call with arguments no completed call had (a different token, or
\* another key component) performs its own fetch, and its result, once it
\* returns, is what is kept; and no kept result is ever changed or evicted.
C11_CachedCallsFetchOncePerKey ==
    [][ /\ \A fn \in Cached : \A args \in DOMAIN memo[fn] :
              /\ args \in DOMAIN memo'[fn]
              /\ memo'[fn][args] = memo[fn][args]
        /\ Called' =>
              LET call == request'.call IN
              IF Completed(call.fn, call.args)
              THEN /\ call.hit
                   /\ call.raised = "none"
                   /\ call.value = memo[call.fn][call.args]
                   /\ fetches' = fetches
                   /\ "upstream_fetch" \notin request'.effects
              ELSE /\ ~call.hit
                   /\ fetches' = fetches + 1
                   /\ "upstream_fetch" \in request'.effects
                   /\ call.raised = "none" =>
                         /\ call.args \in DOMAIN memo'[call.fn]
                         /\ memo'[call.fn][call.args] = call.value
      ]_vars

\* a call is answered from the store while the same derivation of the same
\* model is kept under two tokens, each fetched on its own
C11_Witness ==
    /\ Called
    /\ request.call.hit
    /\ request.call.value # <<>>
    /\ fetches = 2
    /\ \E args \in DOMAIN memo[request.call.fn] :
          /\ args.token # request.call.args.token
          /\ args.urn_bs64 = request.call.args.urn_bs64
          /\ request.call.fn # "metadata_views" =>
                args.model_guid = request.call.args.model_guid

-----------------------------------------------------------------------------
(* Missing selections *)

\* the handlers that need a viewable besides the file
NeedsViewable == {"quantity_takeoff_view", "qaqc_view", "get_tag_options",
                  "get_class_name_options"}

\* the request was made without a selection its handler requires
MissingSelection ==
    /\ request # NoRequest
    /\ \/ ~truthy(request.autodesk_file)
       \/ request.op \in NeedsViewable /\ ~truthy(request.selected_view)

\* the request was answered by the handler's placeholder: an empty option
\* list, a page with a message, a figure with only a message
Placeholder ==
    CASE request.op \in {"get_viewables", "get_tag_options", "get_class_name_options"} ->
             request.result = [kind |-> "options", options |-> <<>>]
      [] request.op \in {"dwg_view", "qaqc_view"} ->
             /\ request.result.kind = "html"
             /\ request.result.html \in {"<p>Please select a Plant 3D file.</p>",
                                         "<p>Please select a viewable.</p>"}
      [] request.op = "quantity_takeoff_view" ->
             request.result = [kind |-> "figure",
                               annotation |-> "Please select a Plant 3D file and viewable"]

\* C12: a request made without a required selection (no file, for every
\* handler; no viewable, for quantity_takeoff_view, qaqc_view, get_tag_options
\* and get_class_name_options) completes with the handler's placeholder and
\* without retrieving a token, resolving a version, fetching from upstream or
\* looking into a memoized store.
C12_MissingSelectionDegrades ==
    [][ MissingSelection' =>
            /\ Placeholder'
            /\ request'.error = "none"
            /\ request'.effects = {}
            /\ request'.call = NoCall
            /\ memo' = memo
            /\ fetches' = fetches
      ]_vars

\* a file but no viewable, asked of qaqc_view while results are kept that a
\* lookup would have found
C12_Witness ==
    /\ MissingSelection
    /\ request.op = "qaqc_view"
    /\ truthy(request.autodesk_file)
    /\ request.selected_view = PyStr(<<>>)
    /\ memo.properties_payload # <<>>
    /\ Placeholder

====
